---- MODULE Spec2Model ----
(***************************************************************************)
(* ImpactFlow API (src/main.py, src/schemas.py): the authentication flow   *)
(* (register, login, get_current_user, /auth/me), the user handlers and    *)
(* the create/list resource handlers over a document store.                *)
(*                                                                         *)
(* Representation of Python values:                                        *)
(*   - a document (dict) is a function from field names to values;         *)
(*   - an ObjectId is [oid |-> n]; str(ObjectId) is the number n, which    *)
(*     stands for the 24-digit hex string, and ObjectId(s) is [oid |-> s]; *)
(*   - None in a string-typed field is the value None below; a password    *)
(*     field holds a bcrypt digest <<"bcrypt", salt, plaintext>> or        *)
(*     NoDigest (Python None);                                             *)
(*   - Optional[dict] (the result of find_one) is a sequence of length 0   *)
(*     or 1;                                                               *)
(*   - a collection is the sequence of its documents in natural            *)
(*     (insertion) order: nothing is ever updated or deleted.              *)
(*                                                                         *)
(* Every handler is an async def that never awaits: on the one event loop  *)
(* of uvicorn.run(app) a request runs from its first line to its return    *)
(* without another request in between, so each handler is one action.      *)
(*                                                                         *)
(* Libraries are modelled by what they do for the calls made here:         *)
(*   - pymongo find_one returns the first match in natural order;          *)
(*   - passlib verify is true exactly for the plaintext that was hashed,   *)
(*     and false for a digest of None;                                     *)
(*   - jose jwt.encode turns the datetime exp into whole seconds and       *)
(*     jwt.decode raises when the signature does not match or when         *)
(*     exp < the current whole second.                                     *)
(*                                                                         *)
(* Spec has every route; SpecAuth the auth and user routes; SpecToken the  *)
(* auth and user routes with the clock, which only token expiry reads.     *)
(***************************************************************************)
EXTENDS Integers, Sequences, FiniteSets, TLC

VARIABLES
    db,            \* the module global db of database.py: None or a live handle
    store,         \* the database: collection name -> sequence of documents
    now,           \* datetime.utcnow(), in ticks of 1/TicksPerSecond second
    held,          \* the token a client holds: <<>>, or the token with the tick
                   \* it was issued at and the email it was issued for
    response       \* the last HTTP response, with the request it answers and
                   \* what the dependency get_current_user handed the handler

vars == <<db, store, now, held, response>>

\* ------------------------------------------------------------------ bounds
\* documents ever inserted, over all collections
MaxDocs == 2
\* ticks the clock is followed for after its start and after a jump of 24 h
MaxTicks == 2
\* resolution of the clock
TicksPerSecond == 2

\* ------------------------------------------------------- program constants
ACCESS_TOKEN_EXPIRE_MINUTES == 60 * 24
ALGORITHM == "HS256"
SECRET_KEY == "JWT_SECRET"

ExpireTicks == ACCESS_TOKEN_EXPIRE_MINUTES * 60 * TicksPerSecond

\* ------------------------------------------------------------ Python values
None == "None"
NoDigest == <<>>
NoDoc == <<>>
Connected == "db"

Falsy(x) == x \in {None, ""}

Collections == {"user", "event", "volunteer", "eventvolunteer", "donation",
                "task", "attendance"}

\* ------------------------------------------------------------- input sets
Emails == {"a@x.com", "b@x.com"}
Passwords == {"pw1", "pw2"}
Roles == {"volunteer"}

\* the passwords registered with, and those POST /users is called with
\* (the empty one is stored as None); a login tries every one of Passwords
RegisterPasswords == {"pw1"}
UserPasswords == {"pw2", ""}

RegisterPayload ==
    [name : {"Alice"}, email : Emails, phone : {None}, role : Roles,
     password : RegisterPasswords]

User ==
    [name : {"Alice"}, email : Emails, phone : {None}, role : Roles,
     password : UserPasswords, is_active : BOOLEAN]

EventIds == {"E1", "E2"}

Event ==
    [event_title : {"Beach Cleanup"}, date : {"2025-05-20"}, location : {"Bay"},
     description : {None}, budget : {0}, status : {"upcoming"},
     banner_url : {None}]

Volunteer ==
    [name : {"Bob"}, skills : {<<>>}, availability : {None}, phone : {None}]

EventVolunteer == [event_id : EventIds, volunteer_id : {"V1"}, role : {None}]

Donation ==
    [donor_name : {"Dee"}, event_id : EventIds \cup {None}, amount : {0},
     kind : {"cash"}, material_desc : {None}, date : {"2025-05-20"}]

Task ==
    [event_id : EventIds, task_name : {"Setup"}, assigned_to : {None},
     status : {"Pending"}]

Attendance ==
    [event_id : EventIds, volunteer_id : {"V1"}, method : {"manual"},
     timestamp : {None}]

\* the event_id query parameter: absent, empty, or an identifier
EventIdQuery == {None, ""} \cup EventIds

OAuth2PasswordRequestForm ==
    [username : Emails, password : Passwords]

\* ------------------------------------------------------------- dict helpers
Pop(d, k) == [f \in DOMAIN d \ {k} |-> d[f]]

Put(d, k, v) == [f \in DOMAIN d \cup {k} |-> IF f = k THEN v ELSE d[f]]

Get(d, k, default) == IF k \in DOMAIN d THEN d[k] ELSE default

ObjectId(s) == [oid |-> s]

StrOfObjectId(o) == o.oid

\* --------------------------------------------------------------- passwords
\* bcrypt: a digest of the plaintext under a salt; Salt is the salt the next
\* call draws, modelled as fresh for every stored digest
get_password_hash(password, salt) == <<"bcrypt", salt, password>>

verify_password(plain_password, hashed_password) ==
    /\ hashed_password # NoDigest
    /\ hashed_password[3] = plain_password

\* ------------------------------------------------------------------ tokens
Signature(key, alg) == <<alg, key>>

\* a string that is no JWT at all
Malformed == [sub |-> 0, role |-> "", exp |-> 0, sig |-> <<"", "">>]

\* jose encodes a datetime exp as whole seconds: timegm(exp.utctimetuple())
IntDate(t) == t \div TicksPerSecond

create_access_token(data, t) ==
    [sub |-> data.sub, role |-> data.role,
     exp |-> IntDate(t + ExpireTicks),
     sig |-> Signature(SECRET_KEY, ALGORITHM)]

\* JwtDecode with a fault: a token is rejected from the second of its exp on
JwtDecode_expired_at_exp(token, key, alg, t) ==
    IF token.sig # <<alg, key>> THEN <<>>
    ELSE IF token.exp <= t \div TicksPerSecond THEN <<>>
    ELSE <<token>>

\* jwt.decode: <<payload>>, or <<>> for a JWTError (bad signature, malformed,
\* or exp < the current whole second)
JwtDecode(token, key, alg, t) ==
    IF token.sig # Signature(key, alg) THEN <<>>
    ELSE IF token.exp < IntDate(t) THEN <<>>
    ELSE <<token>>

\* a token whose signature bytes were changed
Tampered(token) == [token EXCEPT !.sig = <<token.sig[1], "tampered">>]

\* ------------------------------------------------------------------- store
\* pymongo find_one: the first matching document in natural order, or None
First(idx) == IF idx = {} THEN 0 ELSE CHOOSE i \in idx : \A j \in idx : i <= j

\* find_one_email with a fault: the last matching document, not the first
find_one_email_last(coll, email) ==
    LET idx == {j \in 1..Len(store[coll]) : store[coll][j].email = email}
    IN IF idx = {} THEN NoDoc
       ELSE <<store[coll][CHOOSE i \in idx : \A j \in idx : i >= j]>>

find_one_email(coll, email) ==
    LET i == First({j \in 1..Len(store[coll]) : store[coll][j].email = email})
    IN IF i = 0 THEN NoDoc ELSE <<store[coll][i]>>

find_one_id(coll, id) ==
    LET i == First({j \in 1..Len(store[coll]) : store[coll][j]._id = id})
    IN IF i = 0 THEN NoDoc ELSE <<store[coll][i]>>

\* the ObjectId the store assigns next in a collection: never one it assigned
\* before (documents are never removed, so the count of documents is fresh)
NewId(coll) == Len(store[coll]) + 1

\* insert_one with a fault: an upsert that replaces the last document
insert_one_replace(coll, doc) ==
    LET old == store[coll]
    IN [store EXCEPT ![coll] =
           IF old = <<>> THEN <<Put(doc, "_id", ObjectId(1))>>
           ELSE [i \in 1..Len(old) |->
                    IF i = Len(old) THEN Put(doc, "_id", old[i]._id)
                    ELSE old[i]]]

\* insert_one: the store assigns a fresh ObjectId and appends the document
insert_one(coll, doc) ==
    [store EXCEPT ![coll] = Append(@, Put(doc, "_id", ObjectId(NewId(coll))))]

inserted_id(coll) == ObjectId(NewId(coll))

serialize_doc(doc) ==
    IF doc = NoDoc THEN doc
    ELSE LET d == doc[1]
         IN IF "_id" \in DOMAIN d
            THEN <<Put(Pop(d, "_id"), "id", StrOfObjectId(d._id))>>
            ELSE <<d>>

\* --------------------------------------------------------------- responses
HTTPException(status_code, detail) ==
    [status |-> status_code, detail |-> detail, body |-> <<>>]

Ok(body) == [status |-> 200, detail |-> "", body |-> body]

\* an exception no handler catches: the framework answers 500
InternalServerError == HTTPException(500, "Internal Server Error")

Respond(op, req, r, handed) ==
    response' = [op |-> op, req |-> req, status |-> r.status,
                 detail |-> r.detail, body |-> r.body, current_user |-> handed]

\* ============================================================ auth handlers
\* The effect of a handler: its response and the store it leaves.
Effect(r, st) == [r |-> r, store |-> st]

Salt == Len(store["user"]) + 1

\* EmailTaken with a fault: the duplicate check left out
EmailTaken_never(email) == FALSE

EmailTaken(email) == find_one_email("user", email) # NoDoc

\* POST /auth/register
register_handler(payload) ==
    IF db = None
    THEN Effect(HTTPException(500, "Database not available"), store)
    ELSE IF EmailTaken(payload.email)
    THEN Effect(HTTPException(400, "Email already registered"), store)
    ELSE LET hashed == get_password_hash(payload.password, Salt)
             user_data ==
                 Put(Put(payload, "password", hashed), "is_active", TRUE)
         IN Effect(Ok(<<[id |-> StrOfObjectId(inserted_id("user"))]>>),
                   insert_one("user", user_data))

\* login_handler with a fault: the active check before the password check
login_handler_active_first(form_data) ==
    IF db = None
    THEN HTTPException(500, "Database not available")
    ELSE LET user == find_one_email("user", form_data.username)
         IN IF user = NoDoc
            THEN HTTPException(400, "Invalid credentials")
            ELSE IF ~Get(user[1], "is_active", TRUE)
            THEN HTTPException(403, "User is inactive")
            ELSE IF ~verify_password(form_data.password,
                                     Get(user[1], "password", NoDigest))
            THEN HTTPException(400, "Invalid credentials")
            ELSE Ok(<<[access_token |->
                         create_access_token(
                             [sub |-> StrOfObjectId(user[1]._id),
                              role |-> Get(user[1], "role", "volunteer")], now),
                       token_type |-> "bearer"]>>)

\* login_handler with a fault: the active check left out
login_handler_no_active_check(form_data) ==
    IF db = None
    THEN HTTPException(500, "Database not available")
    ELSE LET user == find_one_email("user", form_data.username)
         IN IF user = NoDoc
            THEN HTTPException(400, "Invalid credentials")
            ELSE IF ~verify_password(form_data.password,
                                     Get(user[1], "password", NoDigest))
            THEN HTTPException(400, "Invalid credentials")
            ELSE Ok(<<[access_token |->
                         create_access_token(
                             [sub |-> StrOfObjectId(user[1]._id),
                              role |-> Get(user[1], "role", "volunteer")], now),
                       token_type |-> "bearer"]>>)

\* POST /auth/login
login_handler(form_data) ==
    IF db = None
    THEN HTTPException(500, "Database not available")
    ELSE LET user == find_one_email("user", form_data.username)
         IN IF user = NoDoc
            THEN HTTPException(400, "Invalid credentials")
            ELSE IF ~verify_password(form_data.password,
                                     Get(user[1], "password", NoDigest))
            THEN HTTPException(400, "Invalid credentials")
            ELSE IF ~Get(user[1], "is_active", TRUE)
            THEN HTTPException(403, "User is inactive")
            ELSE Ok(<<[access_token |->
                         create_access_token(
                             [sub |-> StrOfObjectId(user[1]._id),
                              role |-> Get(user[1], "role", "volunteer")], now),
                       token_type |-> "bearer"]>>)

\* the dependency get_current_user: the user document handed on, or a failure
get_current_user(token) ==
    LET credentials_exception ==
            HTTPException(401, "Could not validate credentials")
        payload == JwtDecode(token, SECRET_KEY, ALGORITHM, now)
    IN IF payload = <<>>
       THEN credentials_exception
       ELSE IF db = None
       THEN InternalServerError
       ELSE LET user == find_one_id("user", ObjectId(payload[1].sub))
            IN IF user = NoDoc
               THEN credentials_exception
               ELSE Ok(serialize_doc(user))

\* GET /auth/me
read_users_me_handler(token) ==
    LET dep == get_current_user(token)
    IN IF dep.status # 200 THEN dep
       ELSE Ok(<<Pop(dep.body[1], "password")>>)

\* POST /users
create_user_handler(user) ==
    IF db = None
    THEN Effect(InternalServerError, store)
    ELSE LET hashed == IF ~Falsy(user.password)
                       THEN get_password_hash(user.password, Salt)
                       ELSE NoDigest
             user_dict == Put(user, "password", hashed)
         IN Effect(Ok(<<[id |-> StrOfObjectId(inserted_id("user"))]>>),
                   insert_one("user", user_dict))

\* an exact-match filter: every field of the filter equals the document's
Matches(d, filt) == \A k \in DOMAIN filt : k \in DOMAIN d /\ d[k] = filt[k]

\* database.get_documents: every matching document, in natural order; it
\* raises when there is no store connection
get_documents(coll, filt) ==
    IF db = None
    THEN [raised |-> TRUE, docs |-> <<>>]
    ELSE [raised |-> FALSE,
          docs |-> SelectSeq(store[coll], LAMBDA d : Matches(d, filt))]

NoFilter == [k \in {} |-> None]

\* GET /users
list_users_handler ==
    LET got == get_documents("user", NoFilter)
        docs == got.docs
    IN IF got.raised
       THEN InternalServerError
       ELSE Ok([i \in 1..Len(docs) |->
                  serialize_doc(<<Pop(docs[i], "password")>>)[1]])

\* ======================================================== resource handlers
\* database.create_document: insert the payload and return the new id as a
\* string; it raises when there is no store connection
create_document(coll, data) ==
    IF db = None
    THEN [raised |-> TRUE, id |-> None, store |-> store]
    ELSE [raised |-> FALSE, id |-> StrOfObjectId(inserted_id(coll)),
          store |-> insert_one(coll, data)]

\* a create handler: return {"id": create_document(...)}
Created(made) ==
    IF made.raised
    THEN Effect(InternalServerError, made.store)
    ELSE Effect(Ok(<<[id |-> made.id]>>), made.store)

\* a list handler: return [serialize_doc(d) for d in get_documents(...)]
Listed(got) ==
    IF got.raised
    THEN InternalServerError
    ELSE Ok([i \in 1..Len(got.docs) |-> serialize_doc(<<got.docs[i]>>)[1]])

\* filt = {"event_id": event_id} if event_id else {}
EventFilter(event_id) ==
    IF ~Falsy(event_id) THEN [event_id |-> event_id] ELSE NoFilter

create_event_handler(event) == Created(create_document("event", event))

list_events_handler == Listed(get_documents("event", NoFilter))

create_volunteer_handler(volunteer) ==
    Created(create_document("volunteer", volunteer))

list_volunteers_handler == Listed(get_documents("volunteer", NoFilter))

map_event_volunteer_handler(ev) ==
    Created(create_document("eventvolunteer", ev))

list_event_volunteers_handler(event_id) ==
    Listed(get_documents("eventvolunteer", EventFilter(event_id)))

create_donation_handler(donation) ==
    Created(create_document("donation", donation))

list_donations_handler(event_id) ==
    Listed(get_documents("donation", EventFilter(event_id)))

create_task_handler(task) == Created(create_document("task", task))

list_tasks_handler(event_id) ==
    Listed(get_documents("task", EventFilter(event_id)))

mark_attendance_handler(a) == Created(create_document("attendance", a))

list_attendance_handler(event_id) ==
    Listed(get_documents("attendance", EventFilter(event_id)))

\* ---------------------------------------------------------------- actions
TotalDocs(st, colls) ==
    LET RECURSIVE Sum(_)
        Sum(S) == IF S = {} THEN 0
                  ELSE LET c == CHOOSE x \in S : TRUE
                       IN Len(st[c]) + Sum(S \ {c})
    IN Sum(colls)

\* the bound of the model: at most MaxDocs documents are ever inserted
Room == TotalDocs(store, Collections) < MaxDocs

Apply(op, req, e) ==
    /\ e.store # store => Room
    /\ store' = e.store
    /\ Respond(op, req, e.r, NoDoc)
    /\ UNCHANGED <<db, now, held>>

register_step(payload) ==
    Apply("register", payload, register_handler(payload))

register == \E payload \in RegisterPayload : register_step(payload)

create_user_step(user) ==
    Apply("create_user", user, create_user_handler(user))

create_user == \E user \in User : create_user_step(user)

\* the client keeps the token it holds or takes the one just issued
login_step(form_data) ==
    LET r == login_handler(form_data)
    IN /\ Respond("login", form_data, r, NoDoc)
       /\ \/ held' = held
          \/ /\ r.status = 200
             /\ held' = <<[token |-> r.body[1].access_token, issued |-> now,
                           username |-> form_data.username]>>
       /\ UNCHANGED <<db, store, now>>

login == \E form_data \in OAuth2PasswordRequestForm : login_step(form_data)

\* what a caller can present: the token held, a tampered copy, or garbage
Presentable ==
    {held[i].token : i \in DOMAIN held}
        \cup {Tampered(held[i].token) : i \in DOMAIN held}
        \cup {Malformed}

read_users_me_step(token) ==
    LET dep == get_current_user(token)
    IN /\ Respond("read_users_me", token, read_users_me_handler(token),
                  IF dep.status = 200 THEN dep.body ELSE NoDoc)
       /\ UNCHANGED <<db, store, now, held>>

read_users_me == \E token \in Presentable : read_users_me_step(token)

list_users ==
    /\ Respond("list_users", <<>>, list_users_handler, NoDoc)
    /\ UNCHANGED <<db, store, now, held>>

\* GET /test: reports the store's state as data, never raises
test_database_handler ==
    Ok(<<[backend |-> "Running",
          database |-> IF db # None THEN "Connected & Working"
                       ELSE "Available but not initialized",
          connection_status |-> IF db # None THEN "Connected"
                                ELSE "Not Connected"]>>)

test_database ==
    /\ Respond("test_database", <<>>, test_database_handler, NoDoc)
    /\ UNCHANGED <<db, store, now, held>>

\* the clock: a tick, or a jump of the whole expiry window
Tick ==
    \E d \in {1, ExpireTicks} :
        /\ (now + d) % ExpireTicks <= MaxTicks
        /\ now + d < 2 * ExpireTicks
        /\ now' = now + d
        /\ UNCHANGED <<db, store, held, response>>

Read(op, req, r) ==
    /\ Respond(op, req, r, NoDoc)
    /\ UNCHANGED <<db, store, now, held>>

create_event ==
    \E event \in Event :
        Apply("create_event", event, create_event_handler(event))

list_events == Read("list_events", <<>>, list_events_handler)

create_volunteer ==
    \E volunteer \in Volunteer :
        Apply("create_volunteer", volunteer,
              create_volunteer_handler(volunteer))

list_volunteers == Read("list_volunteers", <<>>, list_volunteers_handler)

map_event_volunteer ==
    \E ev \in EventVolunteer :
        Apply("map_event_volunteer", ev, map_event_volunteer_handler(ev))

list_event_volunteers ==
    \E event_id \in EventIdQuery :
        Read("list_event_volunteers", event_id,
             list_event_volunteers_handler(event_id))

create_donation ==
    \E donation \in Donation :
        Apply("create_donation", donation, create_donation_handler(donation))

list_donations ==
    \E event_id \in EventIdQuery :
        Read("list_donations", event_id, list_donations_handler(event_id))

create_task ==
    \E task \in Task : Apply("create_task", task, create_task_handler(task))

list_tasks ==
    \E event_id \in EventIdQuery :
        Read("list_tasks", event_id, list_tasks_handler(event_id))

mark_attendance ==
    \E a \in Attendance :
        Apply("mark_attendance", a, mark_attendance_handler(a))

list_attendance ==
    \E event_id \in EventIdQuery :
        Read("list_attendance", event_id, list_attendance_handler(event_id))

Init ==
    /\ db \in {None, Connected}
    /\ store = [c \in Collections |-> <<>>]
    /\ now = 0
    /\ held = <<>>
    /\ response = [op |-> "none", req |-> <<>>, status |-> 0, detail |-> "",
                   body |-> <<>>, current_user |-> NoDoc]

NextAuth ==
    \/ register
    \/ create_user
    \/ login
    \/ read_users_me
    \/ list_users

NextRepo ==
    \/ create_event
    \/ list_events
    \/ create_volunteer
    \/ list_volunteers
    \/ map_event_volunteer
    \/ list_event_volunteers
    \/ create_donation
    \/ list_donations
    \/ create_task
    \/ list_tasks
    \/ mark_attendance
    \/ list_attendance
    \/ test_database

\* every operation of the API
Next ==
    \/ NextAuth
    \/ NextRepo

NextToken ==
    \/ NextAuth
    \/ Tick

Spec == Init /\ [][Next]_vars

SpecAuth == Init /\ [][NextAuth]_vars

SpecToken == Init /\ [][NextToken]_vars

\* =================================================================== claims
Users == store["user"]

\* the stored users that have an email (stated on the store itself)
StoredWith(email) == {i \in 1..Len(Users) : Users[i].email = email}

Form(email, password) == [username |-> email, password |-> password]

LoginOK(email, password) == login_handler(Form(email, password)).status = 200

IdsOf(seq) == {seq[i]._id : i \in 1..Len(seq)}

\* C1: with a live store, register of a payload whose email no stored user
\* has succeeds, stores one more user and returns its new identifier, and the
\* login with the same email and password succeeds right after it; a login
\* that succeeds keeps succeeding after every later operation.
C1_RegisterThenLogin ==
    [][/\ \A p \in RegisterPayload :
            (db # None /\ StoredWith(p.email) = {} /\ register_step(p))
            => /\ response'.status = 200
               /\ Len(store'["user"]) = Len(Users) + 1
               /\ ObjectId(response'.body[1].id) \notin IdsOf(Users)
               /\ ObjectId(response'.body[1].id)
                      = store'["user"][Len(Users) + 1]._id
               /\ LoginOK(p.email, p.password)'
       /\ \A f \in OAuth2PasswordRequestForm :
            LoginOK(f.username, f.password) => LoginOK(f.username, f.password)'
      ]_vars

\* C1 witness: the login of a registered user succeeded although a second
\* record with the same email and another password was created in between.
C1_Witness ==
    /\ response.op = "login"
    /\ response.status = 200
    /\ Len(Users) = 2
    /\ Users[1].email = response.req.username
    /\ Users[2].email = response.req.username
    /\ Users[1].password # Users[2].password
    /\ response.body[1].access_token.sub = StrOfObjectId(Users[1]._id)

\* C2: register with an email a stored user already has answers 400 "Email
\* already registered" and leaves the store as it was.
C2_DuplicateRejected ==
    [][\A p \in RegisterPayload :
          (StoredWith(p.email) # {} /\ register_step(p))
          => /\ response'.status = 400
             /\ response'.detail = "Email already registered"
             /\ store' = store
      ]_vars

\* C2 witness: a register was rejected as a duplicate.
C2_Witness ==
    /\ response.op = "register"
    /\ response.status = 400
    /\ StoredWith(response.req.email) # {}

\* C3: no two records of the user collection have the same email.
C3_UniqueEmails ==
    \A i, j \in 1..Len(Users) : Users[i].email = Users[j].email => i = j

\* a password that is the password of no stored user with that email
WrongPassword(email, password) ==
    \A i \in StoredWith(email) :
        \/ Users[i].password = NoDigest
        \/ Users[i].password[3] # password

\* C4: a login with an email no stored user has and a login with a stored
\* user's email and a wrong password get the same response, 400 "Invalid
\* credentials", also when the stored user is inactive.
C4_Indistinguishable ==
    \A f1, f2 \in OAuth2PasswordRequestForm :
        (/\ StoredWith(f1.username) = {}
         /\ StoredWith(f2.username) # {}
         /\ WrongPassword(f2.username, f2.password))
        => /\ login_handler(f1) = login_handler(f2)
           /\ login_handler(f2) = HTTPException(400, "Invalid credentials")

\* C4 witness: a login with the email of an inactive user and a wrong
\* password was answered 400, while the other email is not stored.
C4_Witness ==
    /\ response.op = "login"
    /\ response.status = 400
    /\ StoredWith(response.req.username) # {}
    /\ \A i \in StoredWith(response.req.username) : ~Users[i].is_active
    /\ \E i \in StoredWith(response.req.username) :
           Users[i].password # NoDigest
    /\ WrongPassword(response.req.username, response.req.password)
    /\ \E e \in Emails : StoredWith(e) = {}

\* the user a login is about: the first stored user with the email
LoginUser(email) ==
    Users[CHOOSE i \in StoredWith(email) : \A j \in StoredWith(email) : i <= j]

\* C5: a login never returns a token whose subject is an inactive user; for an
\* inactive user the login with the correct password is answered 403 "User is
\* inactive", and 403 is only answered when the password is correct.
C5_InactiveRejected ==
    \A f \in OAuth2PasswordRequestForm :
        LET r == login_handler(f)
        IN /\ r.status = 200 =>
                \E i \in 1..Len(Users) :
                    /\ StrOfObjectId(Users[i]._id) = r.body[1].access_token.sub
                    /\ Users[i].is_active
           /\ (/\ StoredWith(f.username) # {}
               /\ ~LoginUser(f.username).is_active
               /\ LoginUser(f.username).password # NoDigest
               /\ LoginUser(f.username).password[3] = f.password)
              => r = HTTPException(403, "User is inactive")
           /\ r.status = 403 =>
                /\ StoredWith(f.username) # {}
                /\ LoginUser(f.username).password # NoDigest
                /\ LoginUser(f.username).password[3] = f.password

\* C5 witness: a login with the correct password of an inactive user was
\* answered 403.
C5_Witness ==
    /\ response.op = "login"
    /\ response.status = 403
    /\ ~LoginUser(response.req.username).is_active
    /\ LoginUser(response.req.username).password[3] = response.req.password

\* the expiry of a held token: its issue time + 24 hours, in ticks
Expiry(h) == h.issued + ExpireTicks

\* the whole second (UTC timestamp) a time falls in
WholeSecond(t) == t \div TicksPerSecond

Accepted(h) ==
    LET r == get_current_user(h.token)
    IN /\ r.status = 200
       /\ r.body[1].id = h.token.sub
       /\ r.body[1].email = h.username

Rejected(h) ==
    get_current_user(h.token)
        = HTTPException(401, "Could not validate credentials")

\* C6 as stated: a token issued by login is accepted by get_current_user,
\* which returns the user it was issued for, at every time before its expiry,
\* and is rejected with 401 at every time after its expiry.
C6_ExpiryExact ==
    \A i \in DOMAIN held :
        /\ now < Expiry(held[i]) => Accepted(held[i])
        /\ now > Expiry(held[i]) => Rejected(held[i])

\* C6 as amended: the token is accepted, and the user it was issued for is
\* returned, at every time up to the end of the whole second its expiry falls
\* in (so at every time before its expiry), and is rejected with 401 at every
\* time in a later whole second, whatever operations come in between.
C6_ExpiryWholeSecond ==
    \A i \in DOMAIN held :
        /\ now < Expiry(held[i]) => Accepted(held[i])
        /\ WholeSecond(now) <= WholeSecond(Expiry(held[i]))
               => Accepted(held[i])
        /\ WholeSecond(now) > WholeSecond(Expiry(held[i]))
               => Rejected(held[i])

\* C6 witness: /auth/me answered 401 to the token a login issued, presented
\* in a whole second after its expiry, with another user stored since.
C6_Witness ==
    /\ held # <<>>
    /\ response.op = "read_users_me"
    /\ response.req = held[1].token
    /\ response.status = 401
    /\ WholeSecond(now) > WholeSecond(Expiry(held[1]))
    /\ Len(Users) = 2

\* C7: no user record handed out has a password field: not the record
\* get_current_user hands to its consumer, not the /auth/me response, not a
\* record of the user list.
C7_NoPasswordHandedOut ==
    /\ \A i \in DOMAIN response.current_user :
           "password" \notin DOMAIN response.current_user[i]
    /\ response.op \in {"read_users_me", "list_users"} =>
           \A i \in DOMAIN response.body :
               "password" \notin DOMAIN response.body[i]

\* the collection a filtered list reads
ListedCollection(op) ==
    CASE op = "list_event_volunteers" -> "eventvolunteer"
      [] op = "list_donations" -> "donation"
      [] op = "list_tasks" -> "task"
      [] op = "list_attendance" -> "attendance"

FilteredLists ==
    {"list_event_volunteers", "list_donations", "list_tasks", "list_attendance"}

\* the records of a sequence in the form a list returns them
AsListed(docs) == [i \in 1..Len(docs) |-> serialize_doc(<<docs[i]>>)[1]]

\* C8: with a live store, a list of a filterable collection with event_id = X
\* returns exactly the records whose event_id equals X, for every X the
\* caller supplies, and with no event_id it returns every record.
C8_ListExact ==
    (db # None /\ response.op \in FilteredLists) =>
        LET all == store[ListedCollection(response.op)]
        IN /\ response.status = 200
           /\ response.body =
                IF response.req = None THEN AsListed(all)
                ELSE AsListed(SelectSeq(all,
                         LAMBDA d : d.event_id = response.req))

CreateOps ==
    {"register", "create_user", "create_event", "create_volunteer",
     "map_event_volunteer", "create_donation", "create_task",
     "mark_attendance"}

CreatedIn(op) ==
    CASE op \in {"register", "create_user"} -> "user"
      [] op = "create_event" -> "event"
      [] op = "create_volunteer" -> "volunteer"
      [] op = "map_event_volunteer" -> "eventvolunteer"
      [] op = "create_donation" -> "donation"
      [] op = "create_task" -> "task"
      [] op = "mark_attendance" -> "attendance"

IsPrefix(a, b) == Len(a) <= Len(b) /\ \A i \in 1..Len(a) : a[i] = b[i]

\* C9: in every step each collection keeps its records, with their
\* identifiers and fields, as a prefix; a successful create or register adds
\* exactly one record, to its own collection, under an identifier no record
\* of the collection had, and returns that identifier; every other step
\* (a list, a login, /auth/me, /test, a failed request) adds nothing.
C9_AppendOnly ==
    [][/\ \A c \in Collections : IsPrefix(store[c], store'[c])
       /\ IF response'.op \in CreateOps /\ response'.status = 200
          THEN LET c == CreatedIn(response'.op)
               IN /\ Len(store'[c]) = Len(store[c]) + 1
                  /\ \A o \in Collections \ {c} : store'[o] = store[o]
                  /\ store'[c][Len(store'[c])]._id \notin IdsOf(store[c])
                  /\ ObjectId(response'.body[1].id)
                         = store'[c][Len(store'[c])]._id
          ELSE store' = store
      ]_vars

\* C9 witness: reads were answered after records were stored in two
\* collections, and the records are still there.
C9_Witness ==
    /\ response.op = "list_users"
    /\ response.status = 200
    /\ Len(store["user"]) = 1
    /\ Len(store["task"]) = 1
    /\ Len(response.body) = 1

\* C10: with no store connection every data operation is answered by a
\* 500-class error, and only /test answers normally.
C10_StoreUnavailable ==
    db = None =>
        \/ response.op = "none"
        \/ response.op = "test_database" /\ response.status = 200
        \/ response.op # "test_database" /\ response.status = 500

====
